---- MODULE Spec2Model ----
(***************************************************************************)
(* pallet-swaps: a multi-asset token ledger (pallet_fungible,              *)
(* src/fungible/src/lib.rs) and a constant-product swap pallet             *)
(* (src/src/lib.rs) on top of it, configured as in src/src/mock.rs         *)
(* (AccountId, Balance, TokenBalance, TokenId, SwapId, BlockNumber = u64). *)
(*                                                                         *)
(* Every dispatchable is a function from the storage before the call to    *)
(* an outcome: the storage after it, the DispatchResult it returns, and    *)
(* whether an arithmetic operation overflowed or divided by zero on the    *)
(* way.  A dispatchable that returns Err keeps the writes it made before   *)
(* the error: nothing in the two pallets rolls storage back.  The plain    *)
(* operators +, -, * on the balance type panic when the build checks       *)
(* overflow and wrap when it does not; overflow_checks is the build's      *)
(* choice.  A panic aborts the extrinsic and its writes are discarded.     *)
(***************************************************************************)
EXTENDS Integers, Naturals, Sequences, FiniteSets, TLC

(***************************************************************************)
(* Bounds of the model.                                                    *)
(***************************************************************************)
\* Width, in bits, of the model's u64.
BalanceBits == 20
\* Signing accounts 1..NumUsers (the mock's genesis names 1..5).
NumUsers == 2
\* token_count is capped at MaxTokens: token ids are 0..MaxTokens-1.
MaxTokens == 3
\* Free balance of every user at genesis (the mock gives 10000).
GenesisBalance == 10
\* Number of storage-changing calls in one behaviour: of both pallets, of
\* the ledger alone, and of the pools.
MaxOps == 2
MaxLedgerOps == 3
MaxPoolOps == 4
\* block_number is capped at MaxBlock.
MaxBlock == 1
\* Pricing alone: the largest amount bought or sold.
MaxPriceAmount == 3

(***************************************************************************)
(* Program constants.                                                      *)
(***************************************************************************)
ExistentialDeposit == 1
\* The fee: 997 / 1000.
FeeNumerator == 997
FeeDenominator == 1000

Modulus == 2 ^ BalanceBits
MaxValue == Modulus - 1

Users == 1 .. NumUsers
\* MODULE_ID.into_sub_account(id) decoded as a u64 AccountId keeps the first
\* eight bytes of "modl" ++ "mtg/swap" ++ id: the same account for every id
\* (3415826855702589293, src/src/tests.rs:19).  0 stands for that account.
MODULE_ID == 0
into_sub_account(swap_token_id) == MODULE_ID
Accounts == Users \cup {MODULE_ID}
TokenIds == 0 .. (MaxTokens - 1)
SwapIds == 0 .. (MaxTokens - 1)

\* Arguments the calls are tried with.
Amounts == {0, 1, 2, MaxValue}
PoolAmounts == {0, 1, 2}
\* max_tokens of add_liquidity: a whole supply can be offered.
TokenAmounts == PoolAmounts \cup {MaxValue}

\* f with key k set to v (a storage map's insert).
Put(f, k, v) == [x \in (DOMAIN f) \cup {k} |-> IF x = k THEN v ELSE f[x]]

VARIABLES
    token_count,      \* fungible: TokenCount
    allowance,        \* fungible: Allowance, (id, owner, spender) -> amount
    balances,         \* fungible: Balances, (id, owner) -> amount
    total_supply,     \* fungible: TotalSupply, id -> amount
    token_to_swap,    \* swaps: TokenToSwap, TokenId -> SwapId (keys present)
    swaps,            \* swaps: Swaps, SwapId -> Swap (keys present)
    swap_count,       \* swaps: SwapCount
    free_balance,     \* pallet_balances: free balance of each account
    block_number,     \* system: current block height
    overflow_checks,  \* the build: TRUE panics on overflow, FALSE wraps
    last,             \* the last call that changed the storage, and its result
    issued,           \* the token ids create_token returned, in order
    nops,             \* number of storage-changing calls so far
    total_approved,         \* (id, owner, spender) -> total of the successful approve calls
    total_spent,            \* (id, owner, spender) -> total moved by successful transfer_from
    price_args,       \* pricing alone: <<amount, input_reserve, output_reserve>>
    price             \* pricing alone: the price function applied, its result

vars == <<token_count, allowance, balances, total_supply, token_to_swap,
          swaps, swap_count, free_balance, block_number, overflow_checks,
          last, issued, nops, total_approved, total_spent, price_args, price>>

\* Deadlines around the current height: before it, at it, after it.
Deadlines == {d \in (block_number - 1) .. (block_number + 1) : d >= 0}

(***************************************************************************)
(* The storage as one value, with the flags of the call under way.         *)
(***************************************************************************)
Storage ==
    [token_count |-> token_count, allowance |-> allowance,
     balances |-> balances, total_supply |-> total_supply,
     token_to_swap |-> token_to_swap, swaps |-> swaps,
     swap_count |-> swap_count, free_balance |-> free_balance,
     block_number |-> block_number,
     res |-> "Ok", ovf |-> FALSE, div0 |-> FALSE]

\* ensure!(..) / `?`: the call returns e; the writes made so far stay.
Err(s, e) == [s EXCEPT !.res = e]

\* The call panics: always on a division by zero, on an overflow when the
\* build checks overflow.
Panics(s) == s.div0 \/ (s.ovf /\ overflow_checks)

\* What the caller sees.
Result(s) == IF Panics(s) THEN "Panic" ELSE s.res

(***************************************************************************)
(* Arithmetic of the balance type.                                         *)
(***************************************************************************)
Add(a, b) == (a + b) % Modulus
AddOvf(a, b) == a + b >= Modulus
Sub(a, b) == (a - b + Modulus) % Modulus
SubOvf(a, b) == a < b

RECURSIVE MulRec(_, _)
MulRec(a, b) ==
    IF b = 0 THEN 0
    ELSE (2 * MulRec(a, b \div 2) + (b % 2) * a) % Modulus
\* a * b modulo 2^BalanceBits, without a product beyond the checker's integers.
Mul(a, b) ==
    IF a < 32768 /\ b < 32768 THEN (a * b) % Modulus ELSE MulRec(a, b)
MulOvf(a, b) == a # 0 /\ b > MaxValue \div a
\* a / b; the quotient of a division by zero is never used: the call panics.
Div(a, b) == IF b = 0 THEN 0 ELSE a \div b

(***************************************************************************)
(* pallet_fungible: the functions of impl Module (no origin).              *)
(***************************************************************************)
\* Mutant of mint: the balance is credited, the total supply is not.
mint_without_supply(s, id, to, amount) ==
    [s EXCEPT !.balances[id][to] = Add(@, amount),
              !.ovf = @ \/ AddOvf(s.balances[id][to], amount)]

\* *bal += amount; *sup += amount; Ok(())
mint(s, id, to, amount) ==
    [s EXCEPT !.balances[id][to] = Add(@, amount),
              !.total_supply[id] = Add(@, amount),
              !.ovf = @ \/ AddOvf(s.balances[id][to], amount)
                        \/ AddOvf(s.total_supply[id], amount)]

\* *bal -= amount; *sup -= amount; Ok(())
burn(s, id, from, amount) ==
    [s EXCEPT !.balances[id][from] = Sub(@, amount),
              !.total_supply[id] = Sub(@, amount),
              !.ovf = @ \/ SubOvf(s.balances[id][from], amount)
                        \/ SubOvf(s.total_supply[id], amount)]

\* The id create_token returns: the current token_count.
create_token_id(s) == s.token_count

\* Mutant of create_token: TokenCount is left as it was.
create_token_same_count(s, who, supply) ==
    LET id == create_token_id(s)
    IN  [s EXCEPT !.balances[id][who] = supply,
                  !.total_supply[id] = supply]

\* Balances and TotalSupply of the new id are inserted (overwritten), and
\* TokenCount becomes id + 1 (checked_add: beyond the model's MaxTokens).
create_token(s, who, supply) ==
    LET id == create_token_id(s)
    IN  [s EXCEPT !.balances[id][who] = supply,
                  !.total_supply[id] = supply,
                  !.token_count = id + 1]

\* Mutant of do_transfer: both balances are read before either is written.
do_transfer_stale_read(s, id, from, to, amount) ==
    IF ~(s.balances[id][from] >= amount) THEN Err(s, "InsufficientFunds")
    ELSE LET debited == [s.balances EXCEPT ![id][from] = Sub(@, amount)]
         IN  [s EXCEPT !.balances = [debited EXCEPT ![id][to] =
                                         Add(s.balances[id][to], amount)],
                       !.ovf = @ \/ AddOvf(s.balances[id][to], amount)]

\* ensure!(from_balance >= amount); debit from; credit to.
do_transfer(s, id, from, to, amount) ==
    IF ~(s.balances[id][from] >= amount) THEN Err(s, "InsufficientFunds")
    ELSE LET debited == [s.balances EXCEPT ![id][from] = Sub(@, amount)]
         IN  [s EXCEPT !.balances = [debited EXCEPT ![id][to] = Add(@, amount)],
                       !.ovf = @ \/ AddOvf(debited[id][to], amount)]

(***************************************************************************)
(* pallet_fungible: the dispatchables (sender is the signed origin).       *)
(***************************************************************************)
debug_create_token(s, sender, supply) == create_token(s, sender, supply)

transfer(s, sender, id, destination, amount) ==
    IF amount = 0 THEN Err(s, "TransferZeroAmount")
    ELSE do_transfer(s, id, sender, destination, amount)

transfer_from(s, sender, id, from, to, amount) ==
    IF amount = 0 THEN Err(s, "TransferZeroAmount")
    ELSE IF ~(s.allowance[id][from][sender] >= amount)
    THEN Err(s, "InsufficientAllowance")
    ELSE LET t == do_transfer(s, id, from, to, amount)
         IN  IF t.res # "Ok" THEN t
             ELSE [t EXCEPT !.allowance[id][from][sender] = Sub(@, amount)]

approve(s, sender, id, spender, amount) ==
    IF amount = 0 THEN Err(s, "TransferZeroAmount")
    ELSE [s EXCEPT !.allowance[id][sender][spender] = Add(@, amount),
                   !.ovf = @ \/ AddOvf(s.allowance[id][sender][spender], amount)]

debug_mint(s, id, to, amount) == mint(s, id, to, amount)

debug_burn(s, id, from, amount) == burn(s, id, from, amount)


(***************************************************************************)
(* The base currency (pallet_balances, ExistentialDeposit = 1).            *)
(* Currency::transfer checks before it writes: a zero value or from = to   *)
(* is Ok and changes nothing.                                              *)
(***************************************************************************)
currency_transfer(s, from, to, value, keep_alive) ==
    IF value = 0 \/ from = to THEN s
    ELSE IF s.free_balance[from] < value THEN Err(s, "InsufficientBalance")
    ELSE IF s.free_balance[to] + value > MaxValue THEN Err(s, "Overflow")
    ELSE IF s.free_balance[to] + value < ExistentialDeposit
    THEN Err(s, "ExistentialDeposit")
    ELSE IF keep_alive /\ s.free_balance[from] - value < ExistentialDeposit
    THEN Err(s, "KeepAlive")
    ELSE [s EXCEPT !.free_balance[from] = @ - value,
                   !.free_balance[to] = @ + value]

(***************************************************************************)
(* pallet swaps: pricing and conversions.                                  *)
(***************************************************************************)
\* saturated_into::<u64>() and then saturated_into() the target type.
convert(balance_of) == IF balance_of > MaxValue THEN MaxValue ELSE balance_of
unconvert(token_balance) == IF token_balance > MaxValue THEN MaxValue ELSE token_balance

get_token_reserve(s, swap) == s.balances[swap.token_id][swap.account]
get_swap_balance(s, swap) == s.free_balance[swap.account]

\* numerator / denominator + 1, with the overflow and division-by-zero flags.
get_output_price_full(output_amount, input_reserve, output_reserve) ==
    LET n1 == Mul(input_reserve, output_amount)
        numerator == Mul(n1, FeeDenominator)
        diff == Sub(output_reserve, output_amount)
        denominator == Mul(diff, FeeNumerator)
        q == Div(numerator, denominator)
    IN  [v |-> Add(q, 1),
         ovf |-> \/ MulOvf(input_reserve, output_amount)
                 \/ MulOvf(n1, FeeDenominator)
                 \/ SubOvf(output_reserve, output_amount)
                 \/ MulOvf(diff, FeeNumerator)
                 \/ AddOvf(q, 1),
         div0 |-> denominator = 0]

get_output_price(output_amount, input_reserve, output_reserve) ==
    get_output_price_full(output_amount, input_reserve, output_reserve).v

\* numerator / denominator, with the overflow and division-by-zero flags.
get_input_price_full(input_amount, input_reserve, output_reserve) ==
    LET input_amount_with_fee == Mul(input_amount, FeeNumerator)
        numerator == Mul(input_amount_with_fee, output_reserve)
        r1000 == Mul(input_reserve, FeeDenominator)
        denominator == Add(r1000, input_amount_with_fee)
    IN  [v |-> Div(numerator, denominator),
         ovf |-> \/ MulOvf(input_amount, FeeNumerator)
                 \/ MulOvf(input_amount_with_fee, output_reserve)
                 \/ MulOvf(input_reserve, FeeDenominator)
                 \/ AddOvf(r1000, input_amount_with_fee),
         div0 |-> denominator = 0]

get_input_price(input_amount, input_reserve, output_reserve) ==
    get_input_price_full(input_amount, input_reserve, output_reserve).v

\* The flags of a computed price join those of the call.
Flagged(s, p) == [s EXCEPT !.ovf = @ \/ p.ovf, !.div0 = @ \/ p.div0]

\* `a * b / c` on the balance type.
MulDiv(a, b, c) ==
    [v |-> Div(Mul(a, b), c), ovf |-> MulOvf(a, b), div0 |-> c = 0]

(***************************************************************************)
(* pallet swaps: the dispatchables.                                        *)
(***************************************************************************)
\* Mutant of create_swap: without ensure!(!TokenToSwap::contains_key(..)).
create_swap_unchecked(s, sender, token_id) ==
    LET swap_id == s.swap_count
        swap_token_id == create_token_id(s)
        s1 == create_token(s, sender, 0)
        new_swap == [token_id |-> token_id, swap_token |-> swap_token_id,
                     account |-> into_sub_account(swap_token_id)]
    IN  [s1 EXCEPT !.token_to_swap = Put(@, token_id, swap_id),
                   !.swaps = Put(@, swap_id, new_swap),
                   !.swap_count = swap_id + 1]

create_swap(s, sender, token_id) ==
    IF token_id \in DOMAIN s.token_to_swap THEN Err(s, "SwapAlreadyExists")
    ELSE LET swap_id == s.swap_count
             next_id == swap_id + 1
             swap_token_id == create_token_id(s)
             s1 == create_token(s, sender, 0)
             account == into_sub_account(swap_token_id)
             new_swap == [token_id |-> token_id, swap_token |-> swap_token_id,
                          account |-> account]
         IN  [s1 EXCEPT !.token_to_swap = Put(@, token_id, swap_id),
                        !.swaps = Put(@, swap_id, new_swap),
                        !.swap_count = next_id]

\* The three writes of add_liquidity, in the code's order; each `?` returns
\* with the earlier writes kept.
add_liquidity_writes(s, who, swap, currency_amount, liquidity_minted, token_amount) ==
    LET s1 == currency_transfer(s, who, swap.account, currency_amount, TRUE)
        s2 == mint(s1, swap.swap_token, who, liquidity_minted)
    IN  IF s1.res # "Ok" THEN s1
        ELSE do_transfer(s2, swap.token_id, who, swap.account, token_amount)

add_liquidity(s, who, swap_id, currency_amount, min_liquidity, max_tokens, deadline) ==
    IF ~(deadline > s.block_number) THEN Err(s, "Deadline")
    ELSE IF ~(max_tokens > 0) THEN Err(s, "ZeroTokens")
    ELSE IF ~(currency_amount > 0) THEN Err(s, "ZeroAmount")
    ELSE IF swap_id \notin DOMAIN s.swaps THEN Err(s, "NoSwapExists")
    ELSE
    LET swap == s.swaps[swap_id]
        total_liquidity == s.total_supply[swap.swap_token]
    IN  IF total_liquidity > 0
        THEN IF ~(min_liquidity > 0) THEN Err(s, "RequestedZeroLiquidity")
             ELSE
             LET swap_balance == convert(get_swap_balance(s, swap))
                 token_reserve == get_token_reserve(s, swap)
                 token_amount == MulDiv(convert(currency_amount), token_reserve, swap_balance)
                 liquidity_minted == MulDiv(convert(currency_amount), total_liquidity, swap_balance)
                 s0 == Flagged(Flagged(s, token_amount), liquidity_minted)
             IN  IF ~(max_tokens >= token_amount.v) THEN Err(s0, "TooManyTokens")
                 ELSE IF ~(liquidity_minted.v >= min_liquidity)
                 THEN Err(s0, "TooLowLiquidity")
                 ELSE add_liquidity_writes(s0, who, swap, currency_amount,
                                           liquidity_minted.v, token_amount.v)
        ELSE \* Fresh swap with no liquidity: the shares are the swap
             \* account's free balance after the transfer.
             LET s1 == currency_transfer(s, who, swap.account, currency_amount, TRUE)
                 initial_liquidity == convert(s1.free_balance[swap.account])
                 s2 == mint(s1, swap.swap_token, who, initial_liquidity)
             IN  IF s1.res # "Ok" THEN s1
                 ELSE do_transfer(s2, swap.token_id, who, swap.account, max_tokens)

remove_liquidity(s, who, swap_id, shares_to_burn, min_currency, min_tokens, deadline) ==
    IF ~(deadline > s.block_number) THEN Err(s, "Deadline")
    ELSE IF ~(shares_to_burn > 0) THEN Err(s, "BurnZeroShares")
    ELSE IF swap_id \notin DOMAIN s.swaps THEN Err(s, "NoSwapExists")
    ELSE
    LET swap == s.swaps[swap_id]
        total_liquidity == s.total_supply[swap.swap_token]
    IN  IF ~(total_liquidity > 0) THEN Err(s, "NoLiquidity")
        ELSE
        LET token_reserve == get_token_reserve(s, swap)
            swap_balance == get_swap_balance(s, swap)
            currency_amount == MulDiv(shares_to_burn, convert(swap_balance), total_liquidity)
            token_amount == MulDiv(shares_to_burn, token_reserve, total_liquidity)
            s0 == Flagged(Flagged(s, currency_amount), token_amount)
        IN  IF ~(unconvert(currency_amount.v) >= min_currency)
            THEN Err(s0, "NotEnoughCurrency")
            ELSE IF ~(token_amount.v >= min_tokens) THEN Err(s0, "NotEnoughTokens")
            ELSE
            LET s1 == burn(s0, swap.swap_token, who, shares_to_burn)
                s2 == currency_transfer(s1, swap.account, who,
                                        unconvert(currency_amount.v), FALSE)
            IN  IF s2.res # "Ok" THEN s2
                ELSE do_transfer(s2, swap.token_id, swap.account, who, token_amount.v)

currency_to_tokens_input(s, buyer, swap_id, currency, min_tokens, deadline, recipient) ==
    IF ~(deadline > s.block_number) THEN Err(s, "Deadline")
    ELSE IF ~(currency > 0) THEN Err(s, "NoCurrencySwapped")
    ELSE IF ~(min_tokens > 0) THEN Err(s, "NoTokensSwapped")
    ELSE IF swap_id \notin DOMAIN s.swaps THEN Err(s, "NoSwapExists")
    ELSE
    LET swap == s.swaps[swap_id]
        token_reserve == get_token_reserve(s, swap)
        swap_balance == get_swap_balance(s, swap)
        tokens_bought == get_input_price_full(convert(currency), convert(swap_balance),
                                              token_reserve)
        s0 == Flagged(s, tokens_bought)
    IN  IF ~(tokens_bought.v >= min_tokens) THEN Err(s0, "NotEnoughTokens")
        ELSE
        LET s1 == currency_transfer(s0, buyer, swap.account, currency, TRUE)
        IN  IF s1.res # "Ok" THEN s1
            ELSE do_transfer(s1, swap.token_id, swap.account, recipient, tokens_bought.v)

currency_to_tokens_output(s, buyer, swap_id, tokens_bought, max_currency, deadline, recipient) ==
    IF ~(deadline >= s.block_number) THEN Err(s, "Deadline")
    ELSE IF ~(tokens_bought > 0) THEN Err(s, "NoTokensSwapped")
    ELSE IF ~(max_currency > 0) THEN Err(s, "NoCurrencySwapped")
    ELSE IF swap_id \notin DOMAIN s.swaps THEN Err(s, "NoSwapExists")
    ELSE
    LET swap == s.swaps[swap_id]
        token_reserve == get_token_reserve(s, swap)
        swap_balance == get_swap_balance(s, swap)
        currency_sold == get_output_price_full(tokens_bought, convert(swap_balance),
                                               token_reserve)
        s0 == Flagged(s, currency_sold)
    IN  IF ~(unconvert(currency_sold.v) <= max_currency)
        THEN Err(s0, "TooExpensiveCurrency")
        ELSE
        LET s1 == currency_transfer(s0, buyer, swap.account,
                                    unconvert(currency_sold.v), TRUE)
        IN  IF s1.res # "Ok" THEN s1
            ELSE do_transfer(s1, swap.token_id, swap.account, recipient, tokens_bought)

tokens_to_currency_input(s, buyer, swap_id, tokens_sold, min_currency, deadline, recipient) ==
    IF ~(deadline >= s.block_number) THEN Err(s, "Deadline")
    ELSE IF ~(tokens_sold > 0) THEN Err(s, "NoTokensSwapped")
    ELSE IF ~(min_currency > 0) THEN Err(s, "NoCurrencySwapped")
    ELSE IF swap_id \notin DOMAIN s.swaps THEN Err(s, "NoSwapExists")
    ELSE
    LET swap == s.swaps[swap_id]
        token_reserve == get_token_reserve(s, swap)
        swap_balance == get_swap_balance(s, swap)
        currency_bought == get_input_price_full(tokens_sold, token_reserve,
                                                convert(swap_balance))
        s0 == Flagged(s, currency_bought)
    IN  IF ~(currency_bought.v >= convert(min_currency))
        THEN Err(s0, "NotEnoughCurrency")
        ELSE
        LET s1 == currency_transfer(s0, swap.account, recipient,
                                    unconvert(currency_bought.v), FALSE)
        IN  IF s1.res # "Ok" THEN s1
            ELSE do_transfer(s1, swap.token_id, buyer, swap.account, tokens_sold)

tokens_to_currency_output(s, buyer, swap_id, currency_bought, max_tokens, deadline, recipient) ==
    IF ~(deadline >= s.block_number) THEN Err(s, "Deadline")
    ELSE IF ~(max_tokens > 0) THEN Err(s, "NoTokensSwapped")
    ELSE IF ~(currency_bought > 0) THEN Err(s, "NoCurrencySwapped")
    ELSE IF swap_id \notin DOMAIN s.swaps THEN Err(s, "NoSwapExists")
    ELSE
    LET swap == s.swaps[swap_id]
        token_reserve == get_token_reserve(s, swap)
        swap_balance == get_swap_balance(s, swap)
        tokens_sold == get_output_price_full(convert(currency_bought), token_reserve,
                                             convert(swap_balance))
        s0 == Flagged(s, tokens_sold)
    IN  IF ~(max_tokens >= tokens_sold.v) THEN Err(s0, "TooExpensiveTokens")
        ELSE
        LET s1 == currency_transfer(s0, swap.account, buyer, currency_bought, FALSE)
        IN  IF s1.res # "Ok" THEN s1
            ELSE do_transfer(s1, swap.token_id, recipient, swap.account, tokens_sold.v)

(***************************************************************************)
(* A call as a step: the outcome is written back, unless the call panics.  *)
(* A call that leaves the storage as it was is a stuttering step; last     *)
(* names the last call that changed the storage, and what it returned.     *)
(***************************************************************************)
StorageOf(s) ==
    <<s.token_count, s.allowance, s.balances, s.total_supply,
      s.token_to_swap, s.swaps, s.swap_count, s.free_balance>>

Changes(s) == ~Panics(s) /\ StorageOf(s) # StorageOf(Storage)

Commit(op, args, s) ==
    /\ UNCHANGED <<block_number, overflow_checks, price_args, price>>
    /\ IF Changes(s)
       THEN /\ token_count' = s.token_count
            /\ allowance' = s.allowance
            /\ balances' = s.balances
            /\ total_supply' = s.total_supply
            /\ token_to_swap' = s.token_to_swap
            /\ swaps' = s.swaps
            /\ swap_count' = s.swap_count
            /\ free_balance' = s.free_balance
            /\ last' = [op |-> op, args |-> args, res |-> s.res]
            /\ issued' = IF op \in {"debug_create_token", "create_swap"}
                             /\ s.res = "Ok"
                          THEN Append(issued, create_token_id(Storage))
                          ELSE issued
            /\ nops' = nops + 1
            /\ total_approved' = IF op = "approve" /\ s.res = "Ok"
                            THEN [total_approved EXCEPT ![args[2]][args[1]][args[3]] = @ + args[4]]
                            ELSE total_approved
            /\ total_spent' = IF op = "transfer_from" /\ s.res = "Ok"
                         THEN [total_spent EXCEPT ![args[2]][args[3]][args[1]] = @ + args[5]]
                         ELSE total_spent
       ELSE UNCHANGED <<token_count, allowance, balances, total_supply,
                        token_to_swap, swaps, swap_count, free_balance,
                        last, issued, nops, total_approved, total_spent>>

DebugCreateToken ==
    \E sender \in Users, supply \in Amounts :
        /\ token_count < MaxTokens
        /\ Commit("debug_create_token", <<sender, supply>>,
               debug_create_token(Storage, sender, supply))

Transfer ==
    \E sender \in Users, id \in TokenIds, destination \in Accounts,
       amount \in Amounts :
        Commit("transfer", <<sender, id, destination, amount>>,
               transfer(Storage, sender, id, destination, amount))

TransferFrom ==
    \E sender \in Users, id \in TokenIds, from \in Accounts, to \in Accounts,
       amount \in Amounts :
        Commit("transfer_from", <<sender, id, from, to, amount>>,
               transfer_from(Storage, sender, id, from, to, amount))

Approve ==
    \E sender \in Users, id \in TokenIds, spender \in Accounts,
       amount \in Amounts :
        Commit("approve", <<sender, id, spender, amount>>,
               approve(Storage, sender, id, spender, amount))

DebugMint ==
    \E id \in TokenIds, to \in Accounts, amount \in Amounts :
        Commit("debug_mint", <<id, to, amount>>,
               debug_mint(Storage, id, to, amount))

DebugBurn ==
    \E id \in TokenIds, from \in Accounts, amount \in Amounts :
        Commit("debug_burn", <<id, from, amount>>,
               debug_burn(Storage, id, from, amount))

CreateSwap ==
    \E sender \in Users, token_id \in TokenIds :
        /\ token_count < MaxTokens
        /\ Commit("create_swap", <<sender, token_id>>,
               create_swap(Storage, sender, token_id))

AddLiquidity ==
    \E who \in Users, swap_id \in SwapIds, currency_amount \in PoolAmounts,
       min_liquidity \in PoolAmounts, max_tokens \in TokenAmounts,
       deadline \in Deadlines :
        Commit("add_liquidity", <<who, swap_id, currency_amount, min_liquidity, max_tokens, deadline>>,
               add_liquidity(Storage, who, swap_id, currency_amount, min_liquidity, max_tokens, deadline))

RemoveLiquidity ==
    \E who \in Users, swap_id \in SwapIds, shares_to_burn \in PoolAmounts,
       min_currency \in PoolAmounts, min_tokens \in PoolAmounts,
       deadline \in Deadlines :
        Commit("remove_liquidity", <<who, swap_id, shares_to_burn, min_currency, min_tokens, deadline>>,
               remove_liquidity(Storage, who, swap_id, shares_to_burn, min_currency, min_tokens, deadline))

CurrencyToTokensInput ==
    \E buyer \in Users, swap_id \in SwapIds, currency \in PoolAmounts,
       min_tokens \in PoolAmounts, deadline \in Deadlines, recipient \in Accounts :
        Commit("currency_to_tokens_input", <<buyer, swap_id, currency, min_tokens, deadline, recipient>>,
               currency_to_tokens_input(Storage, buyer, swap_id, currency, min_tokens, deadline, recipient))

CurrencyToTokensOutput ==
    \E buyer \in Users, swap_id \in SwapIds, tokens_bought \in PoolAmounts,
       max_currency \in PoolAmounts, deadline \in Deadlines, recipient \in Accounts :
        Commit("currency_to_tokens_output", <<buyer, swap_id, tokens_bought, max_currency, deadline, recipient>>,
               currency_to_tokens_output(Storage, buyer, swap_id, tokens_bought, max_currency, deadline, recipient))

TokensToCurrencyInput ==
    \E buyer \in Users, swap_id \in SwapIds, tokens_sold \in PoolAmounts,
       min_currency \in PoolAmounts, deadline \in Deadlines, recipient \in Accounts :
        Commit("tokens_to_currency_input", <<buyer, swap_id, tokens_sold, min_currency, deadline, recipient>>,
               tokens_to_currency_input(Storage, buyer, swap_id, tokens_sold, min_currency, deadline, recipient))

TokensToCurrencyOutput ==
    \E buyer \in Users, swap_id \in SwapIds, currency_bought \in PoolAmounts,
       max_tokens \in PoolAmounts, deadline \in Deadlines, recipient \in Accounts :
        Commit("tokens_to_currency_output", <<buyer, swap_id, currency_bought, max_tokens, deadline, recipient>>,
               tokens_to_currency_output(Storage, buyer, swap_id, currency_bought, max_tokens, deadline, recipient))

NextBlock ==
    /\ block_number < MaxBlock
    /\ block_number' = block_number + 1
    /\ UNCHANGED <<token_count, allowance, balances, total_supply,
                   token_to_swap, swaps, swap_count, free_balance,
                   overflow_checks, last, issued, nops, total_approved, total_spent,
                   price_args, price>>

\* No price function has been applied.
NoPrice == [op |-> "none", v |-> 0, ovf |-> FALSE, div0 |-> FALSE]

\* The storage of new_test_ext, in either build.
Genesis ==
    /\ token_count = 0
    /\ allowance = [id \in TokenIds |-> [o \in Accounts |-> [sp \in Accounts |-> 0]]]
    /\ balances = [id \in TokenIds |-> [o \in Accounts |-> 0]]
    /\ total_supply = [id \in TokenIds |-> 0]
    /\ token_to_swap = [x \in {} |-> 0]
    /\ swaps = [x \in {} |-> 0]
    /\ swap_count = 0
    /\ free_balance = [a \in Accounts |-> IF a \in Users THEN GenesisBalance ELSE 0]
    /\ block_number = 0
    /\ overflow_checks \in BOOLEAN
    /\ last = [op |-> "genesis", args |-> <<>>, res |-> "Ok"]
    /\ issued = <<>>
    /\ nops = 0
    /\ total_approved = [id \in TokenIds |-> [o \in Accounts |-> [sp \in Accounts |-> 0]]]
    /\ total_spent = [id \in TokenIds |-> [o \in Accounts |-> [sp \in Accounts |-> 0]]]

Init ==
    /\ Genesis
    /\ price_args = <<0, 0, 0>>
    /\ price = NoPrice

\* The calls so far leave room for one more among n.
Within(n) == nops < n

\* Both pallets.
Next ==
    \/ Within(MaxOps) /\ DebugCreateToken
    \/ Within(MaxOps) /\ Transfer
    \/ Within(MaxOps) /\ TransferFrom
    \/ Within(MaxOps) /\ Approve
    \/ Within(MaxOps) /\ DebugMint
    \/ Within(MaxOps) /\ DebugBurn
    \/ Within(MaxOps) /\ CreateSwap
    \/ Within(MaxOps) /\ AddLiquidity
    \/ Within(MaxOps) /\ RemoveLiquidity
    \/ Within(MaxOps) /\ CurrencyToTokensInput
    \/ Within(MaxOps) /\ CurrencyToTokensOutput
    \/ Within(MaxOps) /\ TokensToCurrencyInput
    \/ Within(MaxOps) /\ TokensToCurrencyOutput
    \/ NextBlock

Spec == Init /\ [][Next]_vars

\* The ledger alone.
NextLedger ==
    \/ Within(MaxLedgerOps) /\ DebugCreateToken
    \/ Within(MaxLedgerOps) /\ Transfer
    \/ Within(MaxLedgerOps) /\ TransferFrom
    \/ Within(MaxLedgerOps) /\ Approve
    \/ Within(MaxLedgerOps) /\ DebugMint
    \/ Within(MaxLedgerOps) /\ DebugBurn

SpecLedger == Init /\ [][NextLedger]_vars

\* The pools at one block height, over tokens of debug_create_token.
NextPool ==
    \/ Within(MaxPoolOps) /\ DebugCreateToken
    \/ Within(MaxPoolOps) /\ CreateSwap
    \/ Within(MaxPoolOps) /\ AddLiquidity
    \/ Within(MaxPoolOps) /\ RemoveLiquidity
    \/ Within(MaxPoolOps) /\ CurrencyToTokensInput
    \/ Within(MaxPoolOps) /\ CurrencyToTokensOutput
    \/ Within(MaxPoolOps) /\ TokensToCurrencyInput
    \/ Within(MaxPoolOps) /\ TokensToCurrencyOutput

SpecPool == Init /\ [][NextPool]_vars

(***************************************************************************)
(* The two price functions alone: the amount and the two reserves are      *)
(* drawn at the start, and one of the functions is applied to them.        *)
(***************************************************************************)
PriceAmounts == 1 .. MaxPriceAmount
\* Reserves: small ones, and ones whose products pass the balance type.
PriceReserves == {0, 1, 2, 3, 10, 100, 1000, (MaxValue + 1) \div 2, MaxValue}

InitPrice ==
    /\ Genesis
    /\ price_args \in PriceAmounts \X PriceReserves \X PriceReserves
    /\ price = NoPrice

\* The result of a price function as the value of price.
Priced(op, p) == [op |-> op, v |-> p.v, ovf |-> p.ovf, div0 |-> p.div0]

GetInputPrice ==
    /\ price = NoPrice
    /\ price' = Priced("get_input_price",
                       get_input_price_full(price_args[1], price_args[2], price_args[3]))
    /\ UNCHANGED <<token_count, allowance, balances, total_supply,
                   token_to_swap, swaps, swap_count, free_balance, block_number,
                   overflow_checks, last, issued, nops, total_approved, total_spent,
                   price_args>>

GetOutputPrice ==
    /\ price = NoPrice
    /\ price' = Priced("get_output_price",
                       get_output_price_full(price_args[1], price_args[2], price_args[3]))
    /\ UNCHANGED <<token_count, allowance, balances, total_supply,
                   token_to_swap, swaps, swap_count, free_balance, block_number,
                   overflow_checks, last, issued, nops, total_approved, total_spent,
                   price_args>>

NextPrice ==
    \/ GetInputPrice
    \/ GetOutputPrice

SpecPrice == InitPrice /\ [][NextPrice]_vars

(***************************************************************************)
(* Properties.  A property of a call is stated at every reachable state,   *)
(* for every argument the call is tried with: the outcome of the call from *)
(* that state is compared with the storage of that state.                  *)
(***************************************************************************)
\* Sum of balance(id, owner) over the owners 0 .. n.
RECURSIVE SumUpTo(_, _, _)
SumUpTo(b, id, n) == IF n < 0 THEN 0 ELSE b[id][n] + SumUpTo(b, id, n - 1)
\* Sum of balance(id, owner) over all accounts.
SumBalances(b, id) == SumUpTo(b, id, NumUsers)

\* The call returned an error (it did not panic).
Failed(o) == ~Panics(o) /\ o.res # "Ok"
\* The call returned Ok(()) (it did not panic).
Succeeded(o) == ~Panics(o) /\ o.res = "Ok"
\* The call left the storage as it was.
Untouched(o) == StorageOf(o) = StorageOf(Storage)

\* C1: for every created asset id, total_supply(id) is the sum of
\* balance(id, owner) over all owners, after any sequence of operations.
C1_SupplyIsSumOfBalances ==
    \A id \in TokenIds :
        id < token_count => total_supply[id] = SumBalances(balances, id)

\* C2: whenever add_liquidity returns an error, on an Empty or on a Seeded
\* pool, every currency balance, every ledger balance, every total supply
\* and the pool registry are as they were before the call.
C2_AddLiquidityErrorChangesNothing ==
    \A who \in Users, swap_id \in SwapIds, currency_amount \in PoolAmounts,
       min_liquidity \in PoolAmounts, max_tokens \in TokenAmounts,
       deadline \in Deadlines :
        LET o == add_liquidity(Storage, who, swap_id, currency_amount,
                               min_liquidity, max_tokens, deadline)
        IN  Failed(o) => Untouched(o)

\* C3: whenever one of the four trades returns an error, every currency
\* balance and every ledger balance is as it was before the call.
C3_TradeErrorChangesNothing ==
    \A buyer \in Users, swap_id \in SwapIds, amount \in PoolAmounts,
       limit \in PoolAmounts, deadline \in Deadlines, recipient \in Accounts :
        LET a == currency_to_tokens_input(Storage, buyer, swap_id, amount,
                                          limit, deadline, recipient)
            b == currency_to_tokens_output(Storage, buyer, swap_id, amount,
                                           limit, deadline, recipient)
            c == tokens_to_currency_input(Storage, buyer, swap_id, amount,
                                          limit, deadline, recipient)
            d == tokens_to_currency_output(Storage, buyer, swap_id, amount,
                                           limit, deadline, recipient)
        IN  \A o \in {a, b, c, d} :
                Failed(o) => /\ o.free_balance = free_balance
                             /\ o.balances = balances

\* C4: burn of more than the balance fails with InsufficientFunds and
\* changes neither the balance nor the total supply; remove_liquidity by an
\* account holding fewer shares than shares_to_burn fails and pays out
\* nothing.
C4_BurnChecksBalance ==
    /\ \A id \in TokenIds, from \in Accounts, amount \in Amounts :
           balances[id][from] < amount =>
               LET o == burn(Storage, id, from, amount)
               IN  /\ Result(o) = "InsufficientFunds"
                   /\ o.balances = balances
                   /\ o.total_supply = total_supply
    /\ \A who \in Users, swap_id \in DOMAIN swaps, shares_to_burn \in PoolAmounts,
          min_currency \in PoolAmounts, min_tokens \in PoolAmounts,
          deadline \in Deadlines :
           balances[swaps[swap_id].swap_token][who] < shares_to_burn =>
               LET o == remove_liquidity(Storage, who, swap_id, shares_to_burn,
                                         min_currency, min_tokens, deadline)
               IN  /\ Result(o) # "Ok"
                   /\ o.free_balance = free_balance
                   /\ o.balances = balances

\* C5: at most one pool exists per pooled token id; create_swap for a token
\* id that has a pool fails with SwapAlreadyExists and changes nothing; a
\* successful create_swap adds one pool, increases swap_count by one and
\* creates one new share asset, with total supply zero.
C5_OnePoolPerToken ==
    /\ \A a \in DOMAIN swaps, b \in DOMAIN swaps :
           swaps[a].token_id = swaps[b].token_id => a = b
    /\ \A sender \in Users, token_id \in TokenIds :
           LET o == create_swap(Storage, sender, token_id)
               has_pool == \E a \in DOMAIN swaps : swaps[a].token_id = token_id
           IN  /\ has_pool => Result(o) = "SwapAlreadyExists" /\ Untouched(o)
               /\ (~has_pool /\ token_count < MaxTokens) =>
                      /\ Result(o) = "Ok"
                      /\ o.swap_count = swap_count + 1
                      /\ DOMAIN o.swaps = DOMAIN swaps \cup {swap_count}
                      /\ \A x \in DOMAIN swaps : o.swaps[x] = swaps[x]
                      /\ o.swaps[swap_count].token_id = token_id
                      /\ o.swaps[swap_count].swap_token = token_count
                      /\ o.token_count = token_count + 1
                      /\ o.total_supply[token_count] = 0
                      /\ \A id \in TokenIds \ {token_count} :
                             /\ o.total_supply[id] = total_supply[id]
                             /\ o.balances[id] = balances[id]
                      /\ o.free_balance = free_balance

\* A second pool has been created, and a third for either pooled token is
\* refused.
C5_Witness ==
    /\ last.op = "create_swap"
    /\ swap_count = 2
    /\ token_count < MaxTokens
    /\ \A a \in DOMAIN swaps :
           create_swap(Storage, 1, swaps[a].token_id).res = "SwapAlreadyExists"

\* C6: transfer fails with TransferZeroAmount when amount = 0 and with
\* InsufficientFunds when balance(id, from) < amount, changing nothing;
\* otherwise, for from # to, it takes exactly amount from balance(id, from),
\* adds exactly amount to balance(id, to), and changes no other balance, no
\* allowance and no total supply.
C6_Transfer ==
    \A sender \in Users, id \in TokenIds, destination \in Accounts,
       amount \in Amounts :
        LET o == transfer(Storage, sender, id, destination, amount)
        IN  /\ amount = 0 => Result(o) = "TransferZeroAmount" /\ Untouched(o)
            /\ (amount > 0 /\ balances[id][sender] < amount) =>
                   Result(o) = "InsufficientFunds" /\ Untouched(o)
            /\ (amount > 0 /\ balances[id][sender] >= amount
                  /\ sender # destination) =>
                   /\ Result(o) = "Ok"
                   /\ o.balances[id][sender] = balances[id][sender] - amount
                   /\ o.balances[id][destination] = balances[id][destination] + amount
                   /\ \A j \in TokenIds, a \in Accounts :
                          (j # id \/ a \notin {sender, destination}) =>
                              o.balances[j][a] = balances[j][a]
                   /\ o.allowance = allowance
                   /\ o.total_supply = total_supply

\* C7: transfer_from checks the zero amount, then the allowance, then the
\* owner's balance; on success it moves amount from owner to recipient and
\* takes exactly amount from allowance(id, owner, spender); on any failure
\* the allowance and all balances are unchanged.
C7_TransferFrom ==
    \A sender \in Users, id \in TokenIds, from \in Accounts, to \in Accounts,
       amount \in Amounts :
        LET o == transfer_from(Storage, sender, id, from, to, amount)
            allowed == allowance[id][from][sender]
        IN  /\ amount = 0 => Result(o) = "TransferZeroAmount"
            /\ (amount > 0 /\ allowed < amount) =>
                   Result(o) = "InsufficientAllowance"
            /\ (amount > 0 /\ allowed >= amount /\ balances[id][from] < amount) =>
                   Result(o) = "InsufficientFunds"
            /\ (amount > 0 /\ allowed >= amount /\ balances[id][from] >= amount) =>
                   /\ Result(o) = "Ok"
                   /\ o.allowance = [allowance EXCEPT ![id][from][sender] = @ - amount]
                   /\ from # to =>
                          o.balances = [balances EXCEPT ![id][from] = @ - amount,
                                                        ![id][to] = @ + amount]
                   /\ from = to => o.balances = balances
                   /\ o.total_supply = total_supply
            /\ Result(o) # "Ok" => Untouched(o)

\* C8: approve is additive: from allowance 0, two successful approvals of a
\* and then b yield allowance a + b, in either order; approve of amount 0
\* fails and changes no allowance; approve changes no balance.
C8_ApproveAdditive ==
    \A sender \in Users, id \in TokenIds, spender \in Accounts,
       a \in Amounts, b \in Amounts :
        LET zero == approve(Storage, sender, id, spender, 0)
            ab == approve(approve(Storage, sender, id, spender, a),
                          sender, id, spender, b)
            ba == approve(approve(Storage, sender, id, spender, b),
                          sender, id, spender, a)
        IN  /\ Failed(zero) /\ zero.allowance = allowance
            /\ (allowance[id][sender][spender] = 0 /\ Succeeded(ab)) =>
                   /\ ab.allowance[id][sender][spender] = a + b
                   /\ Succeeded(ba)
                   /\ ba.allowance = ab.allowance
                   /\ ab.balances = balances

\* C9: create_token returns the current token_count, an id that no earlier
\* create_token or create_swap call returned; it increases token_count by
\* one, sets balance(id, owner) and total_supply(id) to the initial supply and
\* leaves the balances and supplies of the assets created before unchanged;
\* token_count never decreases.
C9_FreshTokenIds ==
    /\ [](/\ Len(issued) = token_count
          /\ \A i \in 1 .. Len(issued) : issued[i] = i - 1
          /\ \A who \in Users, supply \in Amounts :
                 token_count < MaxTokens =>
                     LET id == create_token_id(Storage)
                         o == create_token(Storage, who, supply)
                     IN  /\ id = token_count
                         /\ \A i \in 1 .. Len(issued) : issued[i] # id
                         /\ Succeeded(o)
                         /\ o.token_count = token_count + 1
                         /\ o.balances[id][who] = supply
                         /\ o.total_supply[id] = supply
                         /\ \A j \in TokenIds :
                                j < token_count =>
                                    /\ o.balances[j] = balances[j]
                                    /\ o.total_supply[j] = total_supply[j])
    /\ [][token_count' >= token_count]_vars

\* debug_create_token has issued the last of MaxTokens ids, after a
\* create_swap issued one.
C9_Witness ==
    /\ last.op = "debug_create_token"
    /\ swap_count >= 1
    /\ token_count = MaxTokens
    /\ issued[MaxTokens] = MaxTokens - 1
    /\ balances[MaxTokens - 1][last.args[1]] = last.args[2]

C11_SeededAddLiquidity ==
    \A who \in Users, swap_id \in DOMAIN swaps,
       currency_in \in PoolAmounts \ {0}, min_shares \in PoolAmounts,
       max_tokens \in TokenAmounts \ {0} :
        LET swap == swaps[swap_id]
            B == free_balance[swap.account]
            T == balances[swap.token_id][swap.account]
            S == total_supply[swap.swap_token]
            token_amount == (currency_in * T) \div B
            shares_minted == (currency_in * S) \div B
            o == add_liquidity(Storage, who, swap_id, currency_in, min_shares,
                               max_tokens, block_number + 1)
        IN  (S > 0 /\ B > 0 /\ swap.token_id # swap.swap_token) =>
                /\ min_shares = 0 => Result(o) = "RequestedZeroLiquidity"
                /\ (min_shares > 0 /\ token_amount > max_tokens) =>
                       Result(o) = "TooManyTokens"
                /\ (min_shares > 0 /\ token_amount <= max_tokens
                      /\ shares_minted < min_shares) =>
                       Result(o) = "TooLowLiquidity"
                /\ Result(o) = "Ok" =>
                       /\ min_shares > 0
                       /\ token_amount <= max_tokens
                       /\ shares_minted >= min_shares
                       /\ o.free_balance[swap.account] = B + currency_in
                       /\ o.balances[swap.token_id][swap.account] = T + token_amount
                       /\ o.total_supply[swap.swap_token] = S + shares_minted
                       /\ o.balances[swap.swap_token][who] =
                              balances[swap.swap_token][who] + shares_minted

\* C12, for the pools over another asset than their own shares: a
\* successful remove_liquidity on a pool with currency reserve B, token
\* reserve T and share supply S takes exactly shares_to_burn from the
\* caller's shares and from the share supply, moves currency_out =
\* floor(shares_to_burn * B / S) of currency and token_out =
\* floor(shares_to_burn * T / S) of the pooled token from the swap account to
\* the caller, and succeeds only if currency_out >= min_currency and
\* token_out >= min_tokens.
C12_RemoveLiquidity ==
    \A who \in Users, swap_id \in DOMAIN swaps,
       shares_to_burn \in PoolAmounts \ {0}, min_currency \in PoolAmounts,
       min_tokens \in PoolAmounts :
        LET swap == swaps[swap_id]
            B == free_balance[swap.account]
            T == balances[swap.token_id][swap.account]
            S == total_supply[swap.swap_token]
            currency_out == (shares_to_burn * B) \div S
            token_out == (shares_to_burn * T) \div S
            o == remove_liquidity(Storage, who, swap_id, shares_to_burn,
                                  min_currency, min_tokens, block_number + 1)
        IN  (S > 0 /\ swap.token_id # swap.swap_token /\ Result(o) = "Ok") =>
                /\ o.balances[swap.swap_token][who] =
                       balances[swap.swap_token][who] - shares_to_burn
                /\ o.total_supply[swap.swap_token] = S - shares_to_burn
                /\ o.free_balance[swap.account] = B - currency_out
                /\ o.free_balance[who] = free_balance[who] + currency_out
                /\ o.balances[swap.token_id][swap.account] = T - token_out
                /\ o.balances[swap.token_id][who] =
                       balances[swap.token_id][who] + token_out
                /\ currency_out >= min_currency
                /\ token_out >= min_tokens

\* C13: remove_liquidity fails with BurnZeroShares when shares_to_burn = 0,
\* with NoSwapExists for an unknown pool id, with NoLiquidity when the share
\* supply is zero, with NotEnoughCurrency when floor(shares_to_burn * B / S)
\* is below min_currency and with NotEnoughTokens when
\* floor(shares_to_burn * T / S) is below min_tokens; in each case nothing
\* changes.
C13_RemoveLiquidityErrors ==
    \A who \in Users, swap_id \in SwapIds, shares_to_burn \in PoolAmounts,
       min_currency \in PoolAmounts \cup {GenesisBalance},
       min_tokens \in PoolAmounts :
        LET o == remove_liquidity(Storage, who, swap_id, shares_to_burn,
                                  min_currency, min_tokens, block_number + 1)
            known == swap_id \in DOMAIN swaps
            swap == swaps[swap_id]
            B == free_balance[swap.account]
            T == balances[swap.token_id][swap.account]
            S == total_supply[swap.swap_token]
            currency_out == (shares_to_burn * B) \div S
            token_out == (shares_to_burn * T) \div S
        IN  /\ shares_to_burn = 0 =>
                   Result(o) = "BurnZeroShares" /\ Untouched(o)
            /\ (shares_to_burn > 0 /\ ~known) =>
                   Result(o) = "NoSwapExists" /\ Untouched(o)
            /\ (shares_to_burn > 0 /\ known /\ S = 0) =>
                   Result(o) = "NoLiquidity" /\ Untouched(o)
            /\ (shares_to_burn > 0 /\ known /\ S > 0
                  /\ currency_out < min_currency) =>
                   Result(o) = "NotEnoughCurrency" /\ Untouched(o)
            /\ (shares_to_burn > 0 /\ known /\ S > 0
                  /\ currency_out >= min_currency /\ token_out < min_tokens) =>
                   Result(o) = "NotEnoughTokens" /\ Untouched(o)

\* C14: an exact-input trade that succeeds pays
\* floor(997 * in * output_reserve / (1000 * input_reserve + 997 * in)) on the
\* reserves before the trade; the input reserve grows by the amount sold and
\* the output reserve shrinks by that output; the trade fails with
\* NotEnoughTokens / NotEnoughCurrency when the output is below the minimum.
C14_ExactInputPrice ==
    \A buyer \in Users, recipient \in Users, swap_id \in DOMAIN swaps,
       sold \in PoolAmounts \ {0}, minimum \in PoolAmounts \ {0} :
        LET swap == swaps[swap_id]
            B == free_balance[swap.account]
            T == balances[swap.token_id][swap.account]
            tokens_bought ==
                (FeeNumerator * sold * T) \div (FeeDenominator * B + FeeNumerator * sold)
            currency_bought ==
                (FeeNumerator * sold * B) \div (FeeDenominator * T + FeeNumerator * sold)
            c2t == currency_to_tokens_input(Storage, buyer, swap_id, sold, minimum,
                                            block_number + 1, recipient)
            t2c == tokens_to_currency_input(Storage, buyer, swap_id, sold, minimum,
                                            block_number + 1, recipient)
        IN  /\ tokens_bought < minimum => Result(c2t) = "NotEnoughTokens"
            /\ Result(c2t) = "Ok" =>
                   /\ tokens_bought >= minimum
                   /\ c2t.free_balance[swap.account] = B + sold
                   /\ c2t.balances[swap.token_id][swap.account] = T - tokens_bought
            /\ currency_bought < minimum => Result(t2c) = "NotEnoughCurrency"
            /\ Result(t2c) = "Ok" =>
                   /\ currency_bought >= minimum
                   /\ t2c.balances[swap.token_id][swap.account] = T + sold
                   /\ t2c.free_balance[swap.account] = B - currency_bought

\* C15: an exact-output trade that succeeds delivers the requested output and
\* charges floor(1000 * input_reserve * out / (997 * (output_reserve - out))) + 1
\* on the reserves before the trade; currency_to_tokens_output fails with
\* TooExpensiveCurrency and tokens_to_currency_output with TooExpensiveTokens
\* when that charge exceeds the caller's maximum.
C15_ExactOutputPrice ==
    \A buyer \in Users, recipient \in Users, swap_id \in DOMAIN swaps,
       bought \in PoolAmounts \ {0}, maximum \in PoolAmounts \ {0} :
        LET swap == swaps[swap_id]
            B == free_balance[swap.account]
            T == balances[swap.token_id][swap.account]
            currency_sold ==
                (FeeDenominator * B * bought) \div (FeeNumerator * (T - bought)) + 1
            tokens_sold ==
                (FeeDenominator * T * bought) \div (FeeNumerator * (B - bought)) + 1
            c2t == currency_to_tokens_output(Storage, buyer, swap_id, bought, maximum,
                                             block_number + 1, recipient)
            t2c == tokens_to_currency_output(Storage, buyer, swap_id, bought, maximum,
                                             block_number + 1, recipient)
        IN  /\ T > bought =>
                /\ currency_sold > maximum => Result(c2t) = "TooExpensiveCurrency"
                /\ Result(c2t) = "Ok" =>
                       /\ currency_sold <= maximum
                       /\ c2t.free_balance[swap.account] = B + currency_sold
                       /\ c2t.balances[swap.token_id][swap.account] = T - bought
            /\ B > bought =>
                /\ tokens_sold > maximum => Result(t2c) = "TooExpensiveTokens"
                /\ Result(t2c) = "Ok" =>
                       /\ tokens_sold <= maximum
                       /\ t2c.balances[swap.token_id][swap.account] = T + tokens_sold
                       /\ t2c.free_balance[swap.account] = B - bought

\* The legs of a successful trade o on pool swap, as the specification states
\* them for a recipient other than the caller: the caller pays the input asset
\* and gets none of the output asset, the recipient gets the output asset and
\* loses nothing, and no other asset's balances change.  sells_currency tells
\* which asset is the input.
LegsToRecipient(o, buyer, recipient, swap, sells_currency) ==
    LET id == swap.token_id
        paid(a) == IF sells_currency THEN free_balance[a] - o.free_balance[a]
                   ELSE balances[id][a] - o.balances[id][a]
        got(a) == IF sells_currency THEN o.balances[id][a] - balances[id][a]
                  ELSE o.free_balance[a] - free_balance[a]
    IN  /\ paid(buyer) > 0
        /\ got(buyer) = 0
        /\ got(recipient) > 0
        /\ paid(recipient) <= 0
        /\ \A other \in DOMAIN balances \ {id} : o.balances[other] = balances[other]

\* C16: in each of the four trades with a recipient other than the caller,
\* the input asset is debited from the caller and the output asset is
\* credited to the recipient; the recipient's balances never decrease, the
\* caller does not receive the output and no other balance changes.
C16_OutputGoesToRecipient ==
    \A buyer \in Users, recipient \in Users, swap_id \in DOMAIN swaps,
       amount \in PoolAmounts \ {0}, limit \in TokenAmounts \ {0} :
        LET swap == swaps[swap_id]
            c2ti == currency_to_tokens_input(Storage, buyer, swap_id, amount, limit,
                                             block_number + 1, recipient)
            c2to == currency_to_tokens_output(Storage, buyer, swap_id, amount, limit,
                                              block_number + 1, recipient)
            t2ci == tokens_to_currency_input(Storage, buyer, swap_id, amount, limit,
                                             block_number + 1, recipient)
            t2co == tokens_to_currency_output(Storage, buyer, swap_id, amount, limit,
                                              block_number + 1, recipient)
        IN  buyer # recipient =>
            /\ Result(c2ti) = "Ok" => LegsToRecipient(c2ti, buyer, recipient, swap, TRUE)
            /\ Result(c2to) = "Ok" => LegsToRecipient(c2to, buyer, recipient, swap, TRUE)
            /\ Result(t2ci) = "Ok" => LegsToRecipient(t2ci, buyer, recipient, swap, FALSE)
            /\ Result(t2co) = "Ok" => LegsToRecipient(t2co, buyer, recipient, swap, FALSE)

\* currency_reserve * token_reserve of pool swap in storage s.
ReserveProduct(s, swap) == get_swap_balance(s, swap) * get_token_reserve(s, swap)

\* C17: every successful trade, of any of the four variants, leaves the
\* product currency_reserve * token_reserve of its pool greater than or equal
\* to the product before the trade.
C17_ProductNeverDecreases ==
    \A buyer \in Users, recipient \in Users, swap_id \in DOMAIN swaps,
       amount \in PoolAmounts \ {0}, limit \in TokenAmounts \ {0} :
        LET swap == swaps[swap_id]
            c2ti == currency_to_tokens_input(Storage, buyer, swap_id, amount, limit,
                                             block_number + 1, recipient)
            c2to == currency_to_tokens_output(Storage, buyer, swap_id, amount, limit,
                                              block_number + 1, recipient)
            t2ci == tokens_to_currency_input(Storage, buyer, swap_id, amount, limit,
                                             block_number + 1, recipient)
            t2co == tokens_to_currency_output(Storage, buyer, swap_id, amount, limit,
                                              block_number + 1, recipient)
        IN  \A o \in {c2ti, c2to, t2ci, t2co} :
                Result(o) = "Ok" =>
                    ReserveProduct(o, swap) >= ReserveProduct(Storage, swap)

\* C18: each of add_liquidity, remove_liquidity and the four trades fails
\* with the deadline error exactly when the block height exceeds the deadline
\* of the call, the same way for all six; a call whose deadline equals the
\* block height is not rejected for expiry.
C18_DeadlineExceeded ==
    \A who \in Users, swap_id \in SwapIds, amount \in PoolAmounts,
       limit \in PoolAmounts, deadline \in Deadlines :
        LET calls == {
                add_liquidity(Storage, who, swap_id, amount, limit, limit, deadline),
                remove_liquidity(Storage, who, swap_id, amount, limit, limit, deadline),
                currency_to_tokens_input(Storage, who, swap_id, amount, limit, deadline, who),
                currency_to_tokens_output(Storage, who, swap_id, amount, limit, deadline, who),
                tokens_to_currency_input(Storage, who, swap_id, amount, limit, deadline, who),
                tokens_to_currency_output(Storage, who, swap_id, amount, limit, deadline, who)}
        IN  \A o \in calls : (Result(o) = "Deadline") <=> (block_number > deadline)

\* The two reserves of pool swap in storage s.
Reserves(s, swap) == <<get_swap_balance(s, swap), get_token_reserve(s, swap)>>

\* C19: two distinct pools of the registry have different reserve accounts
\* and different share assets, and a deposit into or a trade against one pool
\* that succeeds leaves the currency and token reserves of every other pool
\* as they were.
C19_PoolsAreSeparate ==
    \A i \in DOMAIN swaps, j \in DOMAIN swaps :
        i # j =>
            /\ swaps[i].account # swaps[j].account
            /\ swaps[i].swap_token # swaps[j].swap_token
            /\ \A who \in Users, amount \in PoolAmounts \ {0},
                  limit \in PoolAmounts \ {0} :
                   LET calls == {
                           add_liquidity(Storage, who, i, amount, limit, limit,
                                         block_number + 1),
                           currency_to_tokens_input(Storage, who, i, amount, limit,
                                                    block_number + 1, who),
                           currency_to_tokens_output(Storage, who, i, amount, limit,
                                                     block_number + 1, who),
                           tokens_to_currency_input(Storage, who, i, amount, limit,
                                                    block_number + 1, who),
                           tokens_to_currency_output(Storage, who, i, amount, limit,
                                                     block_number + 1, who)}
                   IN  \A o \in calls :
                           Result(o) = "Ok" =>
                               Reserves(o, swaps[j]) = Reserves(Storage, swaps[j])

\* C20, for the pools over another asset than their own shares: when a
\* provider adds liquidity to an Empty pool and then, with no call in between,
\* removes all the shares received, and both calls succeed, the provider's
\* currency and pooled-token balances are what they were before the deposit,
\* both reserves and the share supply of the pool are zero, and the pool is
\* Empty again.
C20_RoundTrip ==
    \A who \in Users, swap_id \in DOMAIN swaps,
       currency_in \in PoolAmounts \ {0}, max_tokens \in TokenAmounts \ {0} :
        LET swap == swaps[swap_id]
            added == add_liquidity(Storage, who, swap_id, currency_in, 0, max_tokens,
                                   block_number + 1)
            received == added.balances[swap.swap_token][who]
                            - balances[swap.swap_token][who]
            removed == remove_liquidity(added, who, swap_id, received, 0, 0,
                                        block_number + 1)
        IN  (/\ total_supply[swap.swap_token] = 0
             /\ swap.token_id # swap.swap_token
             /\ Result(added) = "Ok"
             /\ Result(removed) = "Ok") =>
                /\ removed.free_balance[who] = free_balance[who]
                /\ removed.balances[swap.token_id][who] = balances[swap.token_id][who]
                /\ Reserves(removed, swap) = <<0, 0>>
                /\ removed.total_supply[swap.swap_token] = 0

\* C21: for fixed positive reserves a and b, get_input_price(x, a, b) is
\* non-decreasing in x, and get_output_price(y, a, b) is non-decreasing in y
\* over the y with 0 < y < b; stated for an amount and the next one, where
\* both calls return.
C21_PriceMonotone ==
    LET x == price_args[1]
        a == price_args[2]
        b == price_args[3]
        next_in == get_input_price_full(x + 1, a, b)
        next_out == get_output_price_full(x + 1, a, b)
    IN  (a > 0 /\ b > 0 /\ ~Panics(price)) =>
            /\ (price.op = "get_input_price" /\ ~Panics(next_in)) =>
                   next_in.v >= price.v
            /\ (price.op = "get_output_price" /\ x + 1 < b /\ ~Panics(next_out)) =>
                   next_out.v >= price.v

\* C22: selling x against reserves a, b > 0 for y = get_input_price(x, a, b)
\* and selling y back at once against the reserves b - y, a + x the first
\* trade leaves returns at most x, where both calls return and the first
\* trade leaves reserves of the balance type.
C22_RoundTripBound ==
    LET x == price_args[1]
        a == price_args[2]
        b == price_args[3]
        y == price.v
        back == get_input_price_full(y, b - y, a + x)
    IN  (/\ price.op = "get_input_price"
         /\ a > 0 /\ b > 0
         /\ ~Panics(price)
         /\ y <= b /\ a + x <= MaxValue
         /\ ~Panics(back)) =>
            back.v <= x

\* C23: an exact-output trade that asks for an output greater than or equal
\* to the pool's reserve of the output asset returns an error and changes no
\* balance.
C23_DrainingOutputRejected ==
    \A buyer \in Users, recipient \in Users, swap_id \in DOMAIN swaps,
       bought \in PoolAmounts \ {0}, maximum \in TokenAmounts \ {0} :
        LET swap == swaps[swap_id]
            c2t == currency_to_tokens_output(Storage, buyer, swap_id, bought, maximum,
                                             block_number + 1, recipient)
            t2c == tokens_to_currency_output(Storage, buyer, swap_id, bought, maximum,
                                             block_number + 1, recipient)
        IN  /\ bought >= get_token_reserve(Storage, swap) =>
                   Failed(c2t) /\ Untouched(c2t)
            /\ bought >= get_swap_balance(Storage, swap) =>
                   Failed(t2c) /\ Untouched(t2c)

\* C24: mint returns an error and changes neither the balance nor the total
\* supply when balance + amount or total_supply + amount passes the maximum
\* of the balance type; so do the credit of a transfer and approve when their
\* addition passes it, so that no balance, supply or allowance wraps.
C24_AdditionsChecked ==
    \A sender \in Users, id \in TokenIds, to \in Accounts, amount \in Amounts \ {0} :
        LET minted == debug_mint(Storage, id, to, amount)
            moved == transfer(Storage, sender, id, to, amount)
            approved == approve(Storage, sender, id, to, amount)
        IN  /\ (\/ balances[id][to] + amount > MaxValue
                \/ total_supply[id] + amount > MaxValue) =>
                   Failed(minted) /\ Untouched(minted)
            /\ (/\ sender # to
                /\ balances[id][sender] >= amount
                /\ balances[id][to] + amount > MaxValue) =>
                   Failed(moved) /\ Untouched(moved)
            /\ allowance[id][sender][to] + amount > MaxValue =>
                   Failed(approved) /\ Untouched(approved)

\* C25: a transfer of an asset from an account to itself, by transfer or by
\* transfer_from within the allowance, succeeds when 0 < amount <= balance
\* and leaves every balance and every total supply as it was; with
\* amount > balance it fails with InsufficientFunds and changes nothing.
C25_TransferToSelf ==
    \A sender \in Users, id \in TokenIds, owner \in Accounts, amount \in Amounts \ {0} :
        LET own == transfer(Storage, sender, id, sender, amount)
            pulled == transfer_from(Storage, sender, id, owner, owner, amount)
        IN  /\ amount <= balances[id][sender] =>
                   /\ Result(own) = "Ok"
                   /\ own.balances = balances
                   /\ own.total_supply = total_supply
            /\ amount > balances[id][sender] =>
                   Result(own) = "InsufficientFunds" /\ Untouched(own)
            /\ (amount <= allowance[id][owner][sender] /\ amount <= balances[id][owner]) =>
                   /\ Result(pulled) = "Ok"
                   /\ pulled.balances = balances
                   /\ pulled.total_supply = total_supply
            /\ (amount <= allowance[id][owner][sender] /\ amount > balances[id][owner]) =>
                   Result(pulled) = "InsufficientFunds" /\ Untouched(pulled)

\* An account holds two units of an asset that some other account holds too;
\* it transfers one unit to itself, and transferring three to itself is
\* refused.
C25_Witness ==
    \E sender \in Users, id \in TokenIds :
        /\ id < token_count
        /\ balances[id][sender] = 2
        /\ balances[id][MODULE_ID] > 0
        /\ Result(transfer(Storage, sender, id, sender, 1)) = "Ok"
        /\ Untouched(transfer(Storage, sender, id, sender, 1))
        /\ Result(transfer(Storage, sender, id, sender, MaxValue)) = "InsufficientFunds"

\* Sum of the currency balances fb of the accounts 0 .. n.
RECURSIVE SumCurrencyUpTo(_, _)
SumCurrencyUpTo(fb, n) == IF n < 0 THEN 0 ELSE fb[n] + SumCurrencyUpTo(fb, n - 1)
\* Sum of the currency balances of all accounts, the reserve account included.
SumCurrency(fb) == SumCurrencyUpTo(fb, NumUsers)

\* The call o on pool swap by who for recipient, whatever it returned, kept
\* the sum of the currency balances and the total supply of the pooled token,
\* and changed no currency or pooled-token balance of a third account.
ValueKept(o, swap, who, recipient) ==
    ~Panics(o) =>
        /\ SumCurrency(o.free_balance) = SumCurrency(free_balance)
        /\ o.total_supply[swap.token_id] = total_supply[swap.token_id]
        /\ \A other \in Users \ {who, recipient} :
               /\ o.free_balance[other] = free_balance[other]
               /\ o.balances[swap.token_id][other] = balances[swap.token_id][other]

\* C26: add_liquidity, remove_liquidity and the four trades leave the sum of
\* the currency balances over all accounts and the total supply of the pooled
\* token unchanged, and move currency and pooled tokens only between the
\* caller, the recipient and the reserve account.
C26_PoolsConserveValue ==
    \A who \in Users, recipient \in Users, swap_id \in DOMAIN swaps,
       amount \in PoolAmounts \ {0}, limit \in TokenAmounts :
        LET swap == swaps[swap_id]
            d == block_number + 1
        IN  /\ ValueKept(add_liquidity(Storage, who, swap_id, amount, limit, limit, d),
                         swap, who, who)
            /\ ValueKept(remove_liquidity(Storage, who, swap_id, amount, limit, limit, d),
                         swap, who, who)
            /\ ValueKept(currency_to_tokens_input(Storage, who, swap_id, amount, limit, d, recipient),
                         swap, who, recipient)
            /\ ValueKept(currency_to_tokens_output(Storage, who, swap_id, amount, limit, d, recipient),
                         swap, who, recipient)
            /\ ValueKept(tokens_to_currency_input(Storage, who, swap_id, amount, limit, d, recipient),
                         swap, who, recipient)
            /\ ValueKept(tokens_to_currency_output(Storage, who, swap_id, amount, limit, d, recipient),
                         swap, who, recipient)

\* C27: for reserves a > 0, b > 0 and an output y with 0 < y < b, selling
\* x = get_output_price(y, a, b) on the same reserves yields at least y:
\* get_input_price(x, a, b) >= y, where both calls return.
C27_OutputPriceCoversOutput ==
    LET y == price_args[1]
        a == price_args[2]
        b == price_args[3]
        x == price.v
        yield == get_input_price_full(x, a, b)
    IN  (/\ price.op = "get_output_price"
         /\ a > 0 /\ b > 0 /\ y < b
         /\ ~Panics(price)
         /\ ~Panics(yield)) =>
            yield.v >= y

\* C28, for the pools over another asset than their own shares: in every
\* reachable state a pool whose share supply is greater than zero has a
\* currency reserve greater than zero and a token reserve greater than zero.
C28_SeededPoolHasReserves ==
    \A swap_id \in DOMAIN swaps :
        LET swap == swaps[swap_id]
        IN  (total_supply[swap.swap_token] > 0 /\ swap.token_id # swap.swap_token) =>
                /\ get_swap_balance(Storage, swap) > 0
                /\ get_token_reserve(Storage, swap) > 0

\* The outcomes, from the current storage, of the publicly callable
\* operations other than add_liquidity and remove_liquidity, by caller who on
\* asset id and pool swap_id, for account to.
OtherCalls(who, id, swap_id, to, amount, limit) ==
    LET d == block_number + 1
    IN  {debug_create_token(Storage, who, amount),
         transfer(Storage, who, id, to, amount),
         transfer_from(Storage, who, id, to, who, amount),
         approve(Storage, who, id, to, amount),
         debug_mint(Storage, id, to, amount),
         debug_burn(Storage, id, to, amount),
         create_swap(Storage, who, id),
         currency_to_tokens_input(Storage, who, swap_id, amount, limit, d, to),
         currency_to_tokens_output(Storage, who, swap_id, amount, limit, d, to),
         tokens_to_currency_input(Storage, who, swap_id, amount, limit, d, to),
         tokens_to_currency_output(Storage, who, swap_id, amount, limit, d, to)}

\* C29: the total supply of a pool's share asset changes only through
\* add_liquidity and remove_liquidity on that pool: no trade and no other
\* publicly callable operation, by any caller, changes it.
C29_OnlyLiquidityChangesShares ==
    \A pool \in DOMAIN swaps, who \in Users, id \in TokenIds,
       swap_id \in DOMAIN swaps, to \in Users, amount \in PoolAmounts \ {0},
       limit \in PoolAmounts \ {0} :
        LET share == swaps[pool].swap_token
            d == block_number + 1
            elsewhere == {add_liquidity(Storage, who, swap_id, amount, limit, limit, d),
                          remove_liquidity(Storage, who, swap_id, amount, limit, limit, d)}
        IN  /\ \A o \in OtherCalls(who, id, swap_id, to, amount, limit) :
                   ~Panics(o) => o.total_supply[share] = total_supply[share]
            /\ swap_id # pool =>
                   \A o \in elsewhere :
                       ~Panics(o) => o.total_supply[share] = total_supply[share]

\* C30: for every asset, owner and spender, after any sequence of calls, the
\* total the spender has moved out of the owner's balance by transfer_from is
\* at most the total the owner has approved for that spender, and the stored
\* allowance is the total approved minus the total spent.
C30_AllowanceAccounting ==
    \A id \in TokenIds, owner \in Accounts, spender \in Accounts :
        /\ total_spent[id][owner][spender] <= total_approved[id][owner][spender]
        /\ allowance[id][owner][spender] =
               total_approved[id][owner][spender] - total_spent[id][owner][spender]

\* What a holder of shares could withdraw from a pool: floor(shares * B / S) of
\* currency and floor(shares * T / S) of tokens, as remove_liquidity computes
\* them, in the integers.
Withdrawable(s, swap, shares) ==
    <<(shares * get_swap_balance(s, swap)) \div s.total_supply[swap.swap_token],
      (shares * get_token_reserve(s, swap)) \div s.total_supply[swap.swap_token]>>

\* C31: in a Seeded pool (shares, currency reserve and token reserve all
\* positive), for every holder of shares, the currency and the tokens the
\* holder could withdraw are, after another account's successful
\* add_liquidity, at least what they were before it.
C31_NoDilution ==
    \A swap_id \in DOMAIN swaps, holder \in Users, who \in Users,
       currency_amount \in PoolAmounts \ {0}, min_liquidity \in PoolAmounts \ {0},
       max_tokens \in TokenAmounts \ {0} :
        LET swap == swaps[swap_id]
            shares == balances[swap.swap_token][holder]
            added == add_liquidity(Storage, who, swap_id, currency_amount,
                                   min_liquidity, max_tokens, block_number + 1)
        IN  (/\ who # holder
             /\ shares > 0
             /\ total_supply[swap.swap_token] > 0
             /\ get_swap_balance(Storage, swap) > 0
             /\ get_token_reserve(Storage, swap) > 0
             /\ Succeeded(added)) =>
                /\ Withdrawable(added, swap, shares)[1]
                       >= Withdrawable(Storage, swap, shares)[1]
                /\ Withdrawable(added, swap, shares)[2]
                       >= Withdrawable(Storage, swap, shares)[2]

====
